---- MODULE Spec2Model ----
(***************************************************************************)
(* A model of analyse-energy-data.py: the Dataset record store, the CSV    *)
(* ingestion of main, the unit scaling, the chart construction and the     *)
(* annual / total statistics.                                              *)
(*                                                                         *)
(* Python values are represented as follows.                               *)
(*   None            the empty tuple <<>>                                   *)
(*   a float x       the one-element tuple <<x>> when it is a record field  *)
(*                   (so that "unset" and 0 differ), x an integer           *)
(*   a datetime      the tuple <<year, month, day>> (the exports are daily) *)
(*   a quotient a/b  the reduced fraction <<n, d>>, d > 0                   *)
(*   a list          a sequence; Python index i is TLA+ index i + 1         *)
(***************************************************************************)
EXTENDS Integers, Sequences, FiniteSets, TLC

VARIABLES
    pc,            \* the position of main
    error,         \* the exception that ended the run, or NoError
    args,          \* the parsed command line (argparse namespace)
    fileIdx,       \* index in Files of the file read_csv is reading
    rowCount,      \* rows handed to read_csv so far, over all files
    records,       \* Dataset.records: the Records in insertion order
    cellsRead,     \* the cells (date, header, cell) read_csv has dealt with
    charts,        \* the list charts of main
    weekly_cop,    \* weekly_cop of main: year -> 53 buckets
    annual_stats,  \* the list annual_stats of main
    total_stats    \* the Stats s handed to generate_html, or None

vars == <<pc, error, args, fileIdx, rowCount, records, cellsRead, charts,
          weekly_cop, annual_stats, total_stats>>

(***************************************************************************)
(* Bounds of the model.                                                    *)
(***************************************************************************)
MaxRows == 2

(***************************************************************************)
(* Program constants.                                                      *)
(***************************************************************************)
None == <<>>
NoError == "NoError"

CopThreshold == 6
WeekBuckets == 53
DaysPerWeek == 7
Repeats2023 == 6
RepeatsOther == 10

Years == <<2023, 2024>>

\* Record.__init__: the metric attributes of a Record (DateTime apart).
Attrs ==
    { "ConsumedElectricalEnergy_Heating",
      "ConsumedElectricalEnergy_DomesticHotWater",
      "HeatGenerated_Heating",
      "HeatGenerated_DomesticHotWater",
      "EarnedEnvironmentEnergy_Heating",
      "EarnedEnvironmentEnergy_DomesticHotWater",
      "DhwTankTemperature",
      "OutdoorTemperature",
      "ManualModeSetpointHeating",
      "RoomTemperatureSetpoint",
      "CurrentRoomTemperature" }

\* Record(): every field None.  key is the dictionary key the Record is
\* stored under in Dataset.records.
NewRecord(key) == [key |-> key, DateTime |-> None, f |-> [a \in Attrs |-> None]]

\* metric.replace(":", "_") on the header names main passes to read_csv.
Normalize(metric) ==
    CASE metric = "ConsumedElectricalEnergy:Heating"
            -> "ConsumedElectricalEnergy_Heating"
      [] metric = "ConsumedElectricalEnergy:DomesticHotWater"
            -> "ConsumedElectricalEnergy_DomesticHotWater"
      [] metric = "HeatGenerated:Heating"
            -> "HeatGenerated_Heating"
      [] metric = "HeatGenerated:DomesticHotWater"
            -> "HeatGenerated_DomesticHotWater"
      [] metric = "EarnedEnvironmentEnergy:Heating"
            -> "EarnedEnvironmentEnergy_Heating"
      [] metric = "EarnedEnvironmentEnergy:DomesticHotWater"
            -> "EarnedEnvironmentEnergy_DomesticHotWater"
      [] OTHER -> metric

(***************************************************************************)
(* Dataset                                                                 *)
(***************************************************************************)

\* The position of the record stored under key date, 0 when there is none.
IndexOf(recs, date) ==
    IF \E i \in 1..Len(recs) : recs[i].key = date
    THEN CHOOSE i \in 1..Len(recs) : recs[i].key = date
    ELSE 0

\* self.records[date] of a defaultdict(Record): a missing key is inserted,
\* at the end of the insertion order, with a fresh Record.
Touch(recs, date) ==
    IF IndexOf(recs, date) = 0 THEN Append(recs, NewRecord(date)) ELSE recs

\* add with the assertion left out (as when assertions are disabled).
add_unchecked(recs, date, metric, value) ==
    LET r0 == Touch(recs, date)
        i  == IndexOf(r0, date)
        r1 == IF r0[i].DateTime = None
              THEN [r0 EXCEPT ![i].DateTime = date]
              ELSE r0
        attr_name == Normalize(metric)
    IN  [error |-> NoError,
         records |-> [r1 EXCEPT ![i].f[attr_name] = <<value>>]]

\* add with the assertion written as a truth test (assert not getattr(..)).
add_truthy(recs, date, metric, value) ==
    LET r0 == Touch(recs, date)
        i  == IndexOf(r0, date)
        r1 == IF r0[i].DateTime = None
              THEN [r0 EXCEPT ![i].DateTime = date]
              ELSE r0
        attr_name == Normalize(metric)
    IN  IF r1[i].f[attr_name] = None \/ r1[i].f[attr_name] = <<0>>
        THEN [error |-> NoError,
              records |-> [r1 EXCEPT ![i].f[attr_name] = <<value>>]]
        ELSE [error |-> "AssertionError", records |-> r1]

\* add without lines 104-105: the DateTime of the record is left as it is.
add_no_date(recs, date, metric, value) ==
    LET r0 == Touch(recs, date)
        i  == IndexOf(r0, date)
        attr_name == Normalize(metric)
    IN  IF r0[i].f[attr_name] # None
        THEN [error |-> "AssertionError", records |-> r0]
        ELSE [error |-> NoError,
              records |-> [r0 EXCEPT ![i].f[attr_name] = <<value>>]]

\* Dataset.add: the record is looked up or created and its DateTime set if
\* unset; the assertion fails when the attribute is not None; otherwise the
\* attribute is set.  The result is the exception raised (or NoError) and
\* the records as the call leaves them.
add(recs, date, metric, value) ==
    LET r0 == Touch(recs, date)
        i  == IndexOf(r0, date)
        r1 == IF r0[i].DateTime = None
              THEN [r0 EXCEPT ![i].DateTime = date]
              ELSE r0
        attr_name == Normalize(metric)
    IN  IF r1[i].f[attr_name] = None
        THEN [error |-> NoError,
              records |-> [r1 EXCEPT ![i].f[attr_name] = <<value>>]]
        ELSE [error |-> "AssertionError", records |-> r1]

\* datetime comparison a < b.
DateLess(a, b) ==
    \/ a[1] < b[1]
    \/ a[1] = b[1] /\ a[2] < b[2]
    \/ a[1] = b[1] /\ a[2] = b[2] /\ a[3] < b[3]

RECURSIVE iter_records_exclusive(_, _, _)
iter_records_exclusive(recs, date_from, date_to) ==
    IF recs = <<>> THEN <<>>
    ELSE LET record == Head(recs)
             rest == iter_records_exclusive(Tail(recs), date_from, date_to)
         IN  IF date_from # None /\ ~DateLess(date_from, record.DateTime)
             THEN rest
             ELSE IF date_to # None /\ DateLess(date_to, record.DateTime)
             THEN rest
             ELSE <<record>> \o rest

\* Dataset.iter_records: the records the generator yields, in order.
RECURSIVE iter_records(_, _, _)
iter_records(recs, date_from, date_to) ==
    IF recs = <<>> THEN <<>>
    ELSE LET record == Head(recs)
             rest == iter_records(Tail(recs), date_from, date_to)
         IN  IF date_from # None /\ DateLess(record.DateTime, date_from)
             THEN rest
             ELSE IF date_to # None /\ DateLess(date_to, record.DateTime)
             THEN rest
             ELSE <<record>> \o rest

\* Dataset.iter_year: the records the generator yields, in order.
RECURSIVE iter_year(_, _)
iter_year(recs, year) ==
    IF recs = <<>> THEN <<>>
    ELSE LET record == Head(recs)
             rest == iter_year(Tail(recs), year)
         IN  IF record.DateTime[1] = year THEN <<record>> \o rest ELSE rest

\* sum(getattr(record, metric) if getattr(record, metric) != None else 0
\*     for record in it)
RECURSIVE SumMetric(_, _)
SumMetric(it, metric) ==
    IF it = <<>> THEN 0
    ELSE (IF Head(it).f[metric] # None THEN Head(it).f[metric][1] ELSE 0)
         + SumMetric(Tail(it), metric)

\* Dataset.total (its year parameter is not used).
total(recs, year, metric, date_from, date_to) ==
    SumMetric(iter_records(recs, date_from, date_to), metric)

\* total_year over iter_records with no bound: the year is not looked at.
total_year_any_year(recs, year, metric) ==
    SumMetric(iter_records(recs, None, None), metric)

\* Dataset.total_year.
total_year(recs, year, metric) ==
    SumMetric(iter_year(recs, year), metric)

(***************************************************************************)
(* datetime: the proleptic Gregorian calendar as the standard library      *)
(* computes it (toordinal, isocalendar, subtraction of two datetimes).     *)
(***************************************************************************)
IsLeap(y) == y % 4 = 0 /\ (y % 100 # 0 \/ y % 400 = 0)

DaysInMonth(y, m) ==
    IF m = 2 THEN (IF IsLeap(y) THEN 29 ELSE 28)
    ELSE IF m \in {4, 6, 9, 11} THEN 30 ELSE 31

RECURSIVE DaysBeforeMonth(_, _)
DaysBeforeMonth(y, m) ==
    IF m = 1 THEN 0 ELSE DaysBeforeMonth(y, m - 1) + DaysInMonth(y, m - 1)

DaysBeforeYear(y) ==
    (y - 1) * 365 + ((y - 1) \div 4) - ((y - 1) \div 100) + ((y - 1) \div 400)

\* datetime.toordinal(): day 1 is 0001-01-01.
ToOrdinal(date) ==
    DaysBeforeYear(date[1]) + DaysBeforeMonth(date[1], date[2]) + date[3]

\* The ordinal of the Monday that starts ISO week 1 of a year.
IsoWeek1Monday(year) ==
    LET firstday == ToOrdinal(<<year, 1, 1>>)
        firstweekday == (firstday + 6) % 7
        week1monday == firstday - firstweekday
    IN  IF firstweekday > 3 THEN week1monday + 7 ELSE week1monday

\* The week number counted from 1 January in blocks of seven days.
IsoWeek_from_jan1(date) ==
    ((ToOrdinal(date) - ToOrdinal(<<date[1], 1, 1>>)) \div 7) + 1

\* record.DateTime.isocalendar().week
IsoWeek(date) ==
    LET today == ToOrdinal(date)
        week  == (today - IsoWeek1Monday(date[1])) \div 7
    IN  IF today < IsoWeek1Monday(date[1])
        THEN ((today - IsoWeek1Monday(date[1] - 1)) \div 7) + 1
        ELSE IF week >= 52 /\ today >= IsoWeek1Monday(date[1] + 1)
        THEN 1
        ELSE week + 1

\* record.DateTime.strftime("%d %m %Y"): the label of a chart point.
Label(date) == <<date[3], date[2], date[1]>>

(***************************************************************************)
(* Float quotients, kept exact as reduced fractions <<n, d>> with d > 0.   *)
(***************************************************************************)
RECURSIVE GCD(_, _)
GCD(a, b) == IF b = 0 THEN a ELSE GCD(b, a % b)

Abs(x) == IF x < 0 THEN -x ELSE x

\* n / d for d > 0.
Frac(n, d) ==
    LET g == GCD(Abs(n), d)
    IN  IF n = 0 THEN <<0, 1>> ELSE <<n \div g, d \div g>>

FracAdd(a, b) == Frac(a[1] * b[2] + b[1] * a[2], a[2] * b[2])

\* a > k for a fraction a and an integer k.
FracGreater(a, k) == a[1] > k * a[2]

\* a / k for a fraction a and an integer k > 0.
FracDivInt(a, k) == Frac(a[1], a[2] * k)

(***************************************************************************)
(* The input: the files main reads and the rows they may hold.             *)
(***************************************************************************)

\* The read_csv calls of main, in order: for each year the energy file,
\* the hot water file, the system file and the zone file.
Files ==
    << [year |-> 2023, kind |-> "energy"], [year |-> 2023, kind |-> "dhw"],
       [year |-> 2023, kind |-> "system"], [year |-> 2023, kind |-> "zone"],
       [year |-> 2024, kind |-> "energy"], [year |-> 2024, kind |-> "dhw"],
       [year |-> 2024, kind |-> "system"], [year |-> 2024, kind |-> "zone"] >>

EnergyBlock ==
    << "ConsumedElectricalEnergy:Heating",
       "ConsumedElectricalEnergy:DomesticHotWater",
       "HeatGenerated:Heating",
       "HeatGenerated:DomesticHotWater",
       "EarnedEnvironmentEnergy:Heating",
       "EarnedEnvironmentEnergy:DomesticHotWater" >>

\* block * n
RECURSIVE Repeat(_, _)
Repeat(block, n) == IF n = 0 THEN <<>> ELSE block \o Repeat(block, n - 1)

\* column_repeats = 6 if year == 2023 else 10
ColumnRepeats(year) == IF year = 2023 THEN Repeats2023 ELSE RepeatsOther

\* The headers list main passes to read_csv for a file.
Headers(file) ==
    CASE file.kind = "energy" ->
            <<"DateTime">> \o Repeat(EnergyBlock, ColumnRepeats(file.year))
      [] file.kind = "dhw"    -> <<"DateTime", "DhwTankTemperature">>
      [] file.kind = "system" -> <<"DateTime", "OutdoorTemperature">>
      [] file.kind = "zone"   ->
            <<"DateTime", "ManualModeSetpointHeating",
              "RoomTemperatureSetpoint", "CurrentRoomTemperature">>

\* row[0].startswith("#") or row[0].startswith("DateTime")
IsComment(cell) == cell \in {"# comment", "DateTime"}

\* datetime.datetime.strptime(row[0], "%Y-%m-%d %H:%M:%S")
Strptime(cell) ==
    CASE cell = "2021-01-01 00:00:00" -> <<2021, 1, 1>>
      [] cell = "2023-01-01 00:00:00" -> <<2023, 1, 1>>
      [] cell = "2023-12-31 00:00:00" -> <<2023, 12, 31>>
      [] cell = "2024-12-31 00:00:00" -> <<2024, 12, 31>>

\* float(row[i]) on the cells of the input.
Float(cell) ==
    CASE cell = "0" -> 0
      [] cell = "1" -> 1
      [] cell = "2" -> 2
      [] cell = "3" -> 3
      [] cell = "7" -> 7

\* The timestamps of the input, and the dates of the command line.
Dates == { <<2021, 1, 1>>, <<2023, 1, 1>>, <<2023, 12, 31>>, <<2024, 12, 31>> }

\* A row of an energy file: the date cell, then the six cells of shape in
\* column group block, every other cell empty.
EnergyRow(file, dateCell, block, shape) ==
    [ i \in 1..Len(Headers(file)) |->
        IF i = 1 THEN dateCell
        ELSE IF (i - 2) \div 6 = block - 1 THEN shape[((i - 2) % 6) + 1]
        ELSE "" ]

\* The rows a file may hold, as csv.reader yields them.
Rows(file) ==
    CASE file.kind = "energy" /\ file.year = 2023 ->
            { EnergyRow(file, "2023-01-01 00:00:00", 1, sh) :
                sh \in { <<"1", "1", "7", "1", "", "">>,
                         <<"0", "1", "1", "7", "", "">>,
                         <<"0", "0", "1", "1", "", "">>,
                         <<"0", "1", "7", "1", "", "">>,
                         <<"1", "", "2", "3", "", "">> } }
            \cup
            { EnergyRow(file, "2023-12-31 00:00:00", b,
                        <<"1", "1", "2", "3", "1", "2">>) :
                b \in {1, ColumnRepeats(file.year)} }
            \cup
            { [ i \in 1..Len(Headers(file)) |-> Headers(file)[i] ] }
      [] file.kind = "energy" /\ file.year = 2024 ->
            { EnergyRow(file, "2024-12-31 00:00:00", b, sh) :
                b \in {ColumnRepeats(file.year)},
                sh \in { <<"1", "1", "7", "1", "", "">>,
                         <<"1", "1", "2", "3", "1", "2">> } }
            \cup
            { EnergyRow(file, "2021-01-01 00:00:00", 1,
                        <<"1", "1", "2", "3", "", "">>) }
      [] file.kind = "dhw" /\ file.year = 2023 ->
            { <<"2023-01-01 00:00:00", "">>,
              <<"2023-01-01 00:00:00", "7">>,
              <<"2023-12-31 00:00:00", "0">>,
              <<"# comment", "">> }
      [] file.kind = "dhw" /\ file.year = 2024 ->
            { <<"2024-12-31 00:00:00", "7">> }
      [] file.kind = "system" /\ file.year = 2023 ->
            { <<"2023-01-01 00:00:00", "3">>,
              <<"2023-12-31 00:00:00", "">> }
      [] file.kind = "system" /\ file.year = 2024 ->
            { <<"2024-12-31 00:00:00", "3">> }
      [] file.kind = "zone" /\ file.year = 2023 ->
            { <<"2023-01-01 00:00:00", "", "", "2">>,
              <<"2023-12-31 00:00:00", "1", "1", "">> }
      [] file.kind = "zone" /\ file.year = 2024 ->
            { <<"2024-12-31 00:00:00", "1", "2", "2">> }

\* The command lines of the model: scale_consumed, scale_generated,
\* date_from (--from), date_to (--to) and dump.
ArgsSet ==
    { [scale_consumed |-> 1, scale_generated |-> 1,
       date_from |-> None, date_to |-> None, dump |-> FALSE],
      [scale_consumed |-> 2, scale_generated |-> 1,
       date_from |-> <<2023, 1, 1>>, date_to |-> <<2023, 12, 31>>,
       dump |-> FALSE],
      [scale_consumed |-> 1, scale_generated |-> 3,
       date_from |-> <<2023, 12, 31>>, date_to |-> None, dump |-> FALSE],
      [scale_consumed |-> 1, scale_generated |-> 1,
       date_from |-> None, date_to |-> None, dump |-> TRUE] }

(***************************************************************************)
(* read_csv                                                                *)
(***************************************************************************)

\* The columns of the set S in increasing order.
InOrder(S) ==
    [k \in 1..Cardinality(S) |->
        CHOOSE i \in S : Cardinality({j \in S : j < i}) = k - 1]

\* if row[i] != "" with the test made on the number: if float(row[i]).
CellsToAdd_nonzero(headers, row) ==
    InOrder({i \in 2..Len(headers) : row[i] # "" /\ Float(row[i]) # 0})

\* The columns 1 <= i < len(headers) (Python indices; i + 1 here) of a row
\* that pass  if row[i] != "", in increasing order.
CellsToAdd(headers, row) ==
    InOrder({i \in 2..Len(headers) : row[i] # ""})

\* The cells (date, header, cell) of a row in the columns before limit:
\* the cells the loop of read_csv has dealt with when it stops at limit.
CellsBefore(date, headers, row, limit) ==
    { <<date, headers[i], row[i]>> : i \in {j \in 2..Len(headers) : j < limit} }

\* dataset.add(date, headers[i], float(row[i])) for the columns cols, in
\* order, until one raises.  The result holds the exception (or NoError),
\* the records, and the column whose add raised (len(headers) + 1 when
\* none did).
RECURSIVE add_cells(_, _, _, _, _)
add_cells(recs, date, headers, row, cols) ==
    IF cols = <<>>
    THEN [error |-> NoError, records |-> recs, stopped |-> Len(headers) + 1]
    ELSE LET i == Head(cols)
             res == add(recs, date, headers[i], Float(row[i]))
         IN  IF res.error # NoError
             THEN [error |-> res.error, records |-> res.records,
                   stopped |-> i]
             ELSE add_cells(res.records, date, headers, row, Tail(cols))

\* The loop of read_csv over the columns of one row:
\*   for i in range(1, len(headers)):
\*       if row[i] != "": dataset.add(date, headers[i], float(row[i]))
read_cells(recs, cells, date, headers, row) ==
    LET res == add_cells(recs, date, headers, row, CellsToAdd(headers, row))
    IN  [error |-> res.error, records |-> res.records,
         cells |-> cells \cup CellsBefore(date, headers, row, res.stopped)]

(***************************************************************************)
(* LineChart and ScatterChart                                              *)
(***************************************************************************)
NoSeries == [n \in {} |-> <<>>]

\* LineChart(name)
LineChart(name) ==
    [type |-> "LINE", name |-> name, labels |-> <<>>, series |-> NoSeries]

\* ScatterChart(name): no labels attribute; labels stays empty here.
ScatterChart(name) ==
    [type |-> "SCATTER", name |-> name, labels |-> <<>>, series |-> NoSeries]

\* LineChart.add_label
add_label(chart, label) == [chart EXCEPT !.labels = Append(@, label)]

\* LineChart.add_series / ScatterChart.add_series
add_series(chart, name) ==
    [chart EXCEPT !.series =
        [n \in (DOMAIN chart.series) \cup {name} |->
            IF n = name THEN <<>> ELSE chart.series[n]]]

\* LineChart.add_datapoint / ScatterChart.add_datapoint
add_datapoint(chart, series_name, value) ==
    [chart EXCEPT !.series[series_name] = Append(@, value)]

\* str(n) for an integer n.
Str(n) == <<"str", n>>

(***************************************************************************)
(* The steps of main after the ingestion                                   *)
(***************************************************************************)
CH == "ConsumedElectricalEnergy_Heating"
CW == "ConsumedElectricalEnergy_DomesticHotWater"
GH == "HeatGenerated_Heating"
GW == "HeatGenerated_DomesticHotWater"

\* if record.X: record.X *= k   (None and 0 are both false)
ScaleField(v, k) == IF v # None /\ v[1] # 0 THEN <<v[1] * k>> ELSE v

\* The scaling with every attribute that is not generated heat scaled as
\* consumed energy.
ScaleRecord_all(r, sc, sg) ==
    [r EXCEPT !.f = [a \in Attrs |->
        IF a \in {GH, GW} THEN ScaleField(r.f[a], sg)
        ELSE ScaleField(r.f[a], sc)]]

\* The body of the scaling loop of main for one record.
ScaleRecord(r, sc, sg) ==
    [r EXCEPT !.f = [a \in Attrs |->
        IF a \in {CH, CW} THEN ScaleField(r.f[a], sc)
        ELSE IF a \in {GH, GW} THEN ScaleField(r.f[a], sg)
        ELSE r.f[a]]]

\* record.A != None and record.B != None ...
AllSet(r, attrs) == \A a \in attrs : r.f[a] # None

\* generated / consumed with no test of the divisor: a zero divisor gives
\* no finite quotient (written <<1, 0>>).
Cop_unguarded(generated, consumed) ==
    IF consumed = 0 THEN <<1, 0>> ELSE Frac(generated, consumed)

\* 0 if consumed == 0 else generated / consumed
Cop(generated, consumed) ==
    IF consumed = 0 THEN Frac(0, 1) ELSE Frac(generated, consumed)

\* The loop of the "Energy consumed" chart.
RECURSIVE ConsumedLoop(_, _)
ConsumedLoop(chart, it) ==
    IF it = <<>> THEN chart
    ELSE LET record == Head(it)
         IN  IF AllSet(record, {CH, CW})
             THEN ConsumedLoop(
                    add_datapoint(
                      add_datapoint(
                        add_datapoint(
                          add_label(chart, Label(record.DateTime)),
                          "Heating (Wh)", record.f[CH][1]),
                        "Hot water (Wh)", record.f[CW][1]),
                      "Total (Wh)", record.f[CH][1] + record.f[CW][1]),
                    Tail(it))
             ELSE ConsumedLoop(chart, Tail(it))

\* The loop of the "Heat energy generated" chart.
RECURSIVE GeneratedLoop(_, _)
GeneratedLoop(chart, it) ==
    IF it = <<>> THEN chart
    ELSE LET record == Head(it)
         IN  IF AllSet(record, {GH, GW})
             THEN GeneratedLoop(
                    add_datapoint(
                      add_datapoint(
                        add_label(chart, Label(record.DateTime)),
                        "Heat generated heating (Wh)", record.f[GH][1]),
                      "Heat generated hot water (Wh)", record.f[GW][1]),
                    Tail(it))
             ELSE GeneratedLoop(chart, Tail(it))

\* cop_combined of a record with the four energy attributes set.
CopCombined(record) ==
    Cop(record.f[GH][1] + record.f[GW][1], record.f[CH][1] + record.f[CW][1])

\* cop_heating and cop_water of a record with the four attributes set.
CopHeating(record) == Cop(record.f[GH][1], record.f[CH][1])
CopWater(record) == Cop(record.f[GW][1], record.f[CW][1])

\* [0] * 53
ZeroBuckets == [i \in 1..WeekBuckets |-> Frac(0, 1)]

\* The loop that sums cop_combined into weekly_cop[year]; the list index
\* is the ISO week number, and an index past the end raises IndexError.
RECURSIVE WeeklyCopLoop(_, _)
WeeklyCopLoop(buckets, it) ==
    IF it = <<>> THEN [error |-> NoError, buckets |-> buckets]
    ELSE LET record == Head(it)
             week == IsoWeek(record.DateTime)
         IN  IF ~AllSet(record, {CH, CW, GH, GW})
             THEN WeeklyCopLoop(buckets, Tail(it))
             ELSE IF FracGreater(CopCombined(record), CopThreshold)
             THEN WeeklyCopLoop(buckets, Tail(it))
             ELSE IF week >= Len(buckets)
             THEN [error |-> "IndexError", buckets |-> buckets]
             ELSE WeeklyCopLoop(
                    [buckets EXCEPT ![week + 1] =
                        FracAdd(@, CopCombined(record))],
                    Tail(it))

\* [x / 7 for x in xs]
DivideThrough(xs) == [i \in 1..Len(xs) |-> FracDivInt(xs[i], DaysPerWeek)]

\* The loop over the years that fills weekly_cop, from year index yi on.
RECURSIVE WeeklyCopYears(_, _, _)
WeeklyCopYears(recs, wc, yi) ==
    IF yi > Len(Years) THEN [error |-> NoError, weekly_cop |-> wc]
    ELSE LET year == Years[yi]
             res == WeeklyCopLoop(ZeroBuckets, iter_year(recs, year))
         IN  IF res.error # NoError
             THEN [error |-> res.error,
                   weekly_cop |-> Append(wc, res.buckets)]
             ELSE WeeklyCopYears(recs,
                     Append(wc, DivideThrough(res.buckets)), yi + 1)

\* for x in xs: chart.add_datapoint(name, x)
AddAll(chart, name, xs) ==
    [chart EXCEPT !.series[name] = @ \o xs]

\* for week in range(first, 53): chart.add_label(str(week))
WeekLabels(chart, first) ==
    [chart EXCEPT !.labels =
        @ \o [k \in 1..(WeekBuckets - first) |-> Str(first + k - 1)]]

\* The series of the "Weekly averaged COP" chart, from year index yi on.
RECURSIVE WeeklySeries(_, _, _)
WeeklySeries(chart, wc, yi) ==
    IF yi > Len(Years) THEN chart
    ELSE WeeklySeries(
            AddAll(add_series(chart, Str(Years[yi])), Str(Years[yi]), wc[yi]),
            wc, yi + 1)

\* The "Weekly averaged COP" chart.
WeeklyChart(wc) ==
    WeeklySeries(WeekLabels(LineChart("Weekly averaged COP"), 1), wc, 1)

\* The loop of the "COP" chart with only cop_heating tested.
RECURSIVE CopLoop_heating_only(_, _)
CopLoop_heating_only(chart, it) ==
    IF it = <<>> THEN chart
    ELSE LET record == Head(it)
         IN  IF ~AllSet(record, {CH, CW, GH, GW})
             THEN CopLoop_heating_only(chart, Tail(it))
             ELSE IF FracGreater(CopHeating(record), CopThreshold)
             THEN CopLoop_heating_only(chart, Tail(it))
             ELSE CopLoop_heating_only(
                    add_datapoint(
                      add_datapoint(
                        add_label(chart, Label(record.DateTime)),
                        "COP heating", CopHeating(record)),
                      "COP hot water", CopWater(record)),
                    Tail(it))

\* The loop of the "COP" chart.
RECURSIVE CopLoop(_, _)
CopLoop(chart, it) ==
    IF it = <<>> THEN chart
    ELSE LET record == Head(it)
         IN  IF ~AllSet(record, {CH, CW, GH, GW})
             THEN CopLoop(chart, Tail(it))
             ELSE IF \/ FracGreater(CopHeating(record), CopThreshold)
                     \/ FracGreater(CopWater(record), CopThreshold)
             THEN CopLoop(chart, Tail(it))
             ELSE CopLoop(
                    add_datapoint(
                      add_datapoint(
                        add_label(chart, Label(record.DateTime)),
                        "COP heating", CopHeating(record)),
                      "COP hot water", CopWater(record)),
                    Tail(it))

\* The loop of the "Hot water temperature (C)" chart.
RECURSIVE DhwLoop(_, _)
DhwLoop(chart, it) ==
    IF it = <<>> THEN chart
    ELSE LET record == Head(it)
         IN  IF record.f["DhwTankTemperature"] # None
             THEN DhwLoop(
                    add_datapoint(
                      add_label(chart, Label(record.DateTime)),
                      "DHW", record.f["DhwTankTemperature"][1]),
                    Tail(it))
             ELSE DhwLoop(chart, Tail(it))

\* The loop of the "Ambient temperature" chart.
RECURSIVE AmbientLoop(_, _)
AmbientLoop(chart, it) ==
    IF it = <<>> THEN chart
    ELSE LET record == Head(it)
         IN  IF AllSet(record, {"OutdoorTemperature", "CurrentRoomTemperature"})
             THEN AmbientLoop(
                    add_datapoint(
                      add_datapoint(
                        add_label(chart, Label(record.DateTime)),
                        "Internal", record.f["CurrentRoomTemperature"][1]),
                      "External", record.f["OutdoorTemperature"][1]),
                    Tail(it))
             ELSE AmbientLoop(chart, Tail(it))

\* The loop that sums the generated heat into heat_generated_weekly.
RECURSIVE HeatWeeklyLoop(_, _)
HeatWeeklyLoop(buckets, it) ==
    IF it = <<>> THEN [error |-> NoError, buckets |-> buckets]
    ELSE LET record == Head(it)
             week == IsoWeek(record.DateTime)
         IN  IF ~AllSet(record, {GH, GW})
             THEN HeatWeeklyLoop(buckets, Tail(it))
             ELSE IF week >= Len(buckets)
             THEN [error |-> "IndexError", buckets |-> buckets]
             ELSE HeatWeeklyLoop(
                    [buckets EXCEPT ![week + 1] =
                        FracAdd(@, Frac(record.f[GH][1] + record.f[GW][1], 1))],
                    Tail(it))

\* for week in range(first, 53):
\*     chart.add_datapoint(str(year), (heat[week], cop[week]))
ScatterPoints(chart, name, heat, cop, first) ==
    [chart EXCEPT !.series[name] =
        @ \o [k \in 1..(WeekBuckets - first) |->
                <<heat[first + k], cop[first + k]>>]]

\* The loop over the years of the scatter chart, from year index yi on.
RECURSIVE ScatterYears(_, _, _, _)
ScatterYears(chart, recs, wc, yi) ==
    IF yi > Len(Years) THEN [error |-> NoError, chart |-> chart]
    ELSE LET year == Years[yi]
             res == HeatWeeklyLoop(ZeroBuckets, iter_year(recs, year))
         IN  IF res.error # NoError
             THEN [error |-> res.error, chart |-> chart]
             ELSE ScatterYears(
                    ScatterPoints(add_series(chart, Str(year)), Str(year),
                                  DivideThrough(res.buckets), wc[yi], 1),
                    recs, wc, yi + 1)

\* max(dates) and min(dates) of a non-empty list of datetimes.
MaxDate(it) ==
    CHOOSE d \in {it[i].DateTime : i \in 1..Len(it)} :
        \A j \in 1..Len(it) : ~DateLess(d, it[j].DateTime)
MinDate(it) ==
    CHOOSE d \in {it[i].DateTime : i \in 1..Len(it)} :
        \A j \in 1..Len(it) : ~DateLess(it[j].DateTime, d)

\* The Stats computed from the four sums and the records they were taken
\* over; ValueError when there is no record (max of an empty list),
\* ZeroDivisionError when a consumed sum is zero.
MakeStats(year, a, it, hc, wcons, hg, wg) ==
    IF it = <<>> THEN [error |-> "ValueError", stats |-> None]
    ELSE IF hc = 0 \/ wcons = 0 \/ hc + wcons = 0
    THEN [error |-> "ZeroDivisionError", stats |-> None]
    ELSE [error |-> NoError,
          stats |->
            [year |-> year,
             scale_consumed |-> a.scale_consumed,
             scale_generated |-> a.scale_generated,
             length_days |-> ToOrdinal(MaxDate(it)) - ToOrdinal(MinDate(it)),
             annual_heating_consumed |-> hc,
             annual_water_consumed |-> wcons,
             annual_heating_generated |-> hg,
             annual_water_generated |-> wg,
             annual_total_consumed |-> hc + wcons,
             annual_total_generated |-> hg + wg,
             heating_scop |-> Frac(hg, hc),
             water_scop |-> Frac(wg, wcons),
             scop |-> Frac(hg + wg, hc + wcons)]]

(***************************************************************************)
(* main                                                                    *)
(***************************************************************************)
Init ==
    /\ pc = "ingest"
    /\ error = NoError
    /\ args \in ArgsSet
    /\ fileIdx = 1
    /\ rowCount = 0
    /\ records = <<>>
    /\ cellsRead = {}
    /\ charts = <<>>
    /\ weekly_cop = <<>>
    /\ annual_stats = <<>>
    /\ total_stats = None

\* No exception has ended the run.
Running == error = NoError

\* One iteration of read_csv's loop over the rows of the current file.
ReadRow ==
    /\ Running
    /\ pc = "ingest"
    /\ rowCount < MaxRows
    /\ \E row \in Rows(Files[fileIdx]) :
         IF IsComment(row[1])
         THEN UNCHANGED <<records, cellsRead, error>>
         ELSE LET date == Strptime(row[1])
                  res  == read_cells(records, cellsRead, date,
                                     Headers(Files[fileIdx]), row)
              IN  /\ records' = res.records
                  /\ cellsRead' = res.cells
                  /\ error' = res.error
    /\ rowCount' = rowCount + 1
    /\ UNCHANGED <<pc, args, fileIdx, charts, weekly_cop, annual_stats,
                   total_stats>>

\* The end of a file: read_csv returns and main goes on to the next file,
\* or, after the last, to the scaling.
EndOfFile ==
    /\ Running
    /\ pc = "ingest"
    /\ IF fileIdx < Len(Files)
       THEN /\ fileIdx' = fileIdx + 1
            /\ pc' = pc
       ELSE /\ pc' = "scale"
            /\ fileIdx' = fileIdx
    /\ UNCHANGED <<error, args, rowCount, records, cellsRead, charts,
                   weekly_cop, annual_stats, total_stats>>

\* "Scale the measured Wh values": the loop over dataset.records.values().
Scale ==
    /\ Running
    /\ pc = "scale"
    /\ records' = [i \in 1..Len(records) |->
                     ScaleRecord(records[i], args.scale_consumed,
                                 args.scale_generated)]
    /\ pc' = "dump"
    /\ UNCHANGED <<error, args, fileIdx, rowCount, cellsRead, charts,
                   weekly_cop, annual_stats, total_stats>>

\* if args.dump: dataset.dump(); return
Dump ==
    /\ Running
    /\ pc = "dump"
    /\ pc' = IF args.dump THEN "done" ELSE "consumed"
    /\ UNCHANGED <<error, args, fileIdx, rowCount, records, cellsRead, charts,
                   weekly_cop, annual_stats, total_stats>>

\* The records of the date range of the command line.
InRange == iter_records(records, args.date_from, args.date_to)

\* A chart step: the chart is appended to charts and main goes on.
ChartStep(at, chart, then) ==
    /\ Running
    /\ pc = at
    /\ charts' = Append(charts, chart)
    /\ pc' = then
    /\ UNCHANGED <<error, args, fileIdx, rowCount, records, cellsRead,
                   weekly_cop, annual_stats, total_stats>>

\* "Prepare consumed chart data."
ConsumedChart ==
    ChartStep("consumed",
        ConsumedLoop(
            add_series(add_series(add_series(LineChart("Energy consumed"),
                "Heating (Wh)"), "Hot water (Wh)"), "Total (Wh)"),
            InRange),
        "generated")

\* "Prepare generated chart data."
GeneratedChart ==
    ChartStep("generated",
        GeneratedLoop(
            add_series(add_series(LineChart("Heat energy generated"),
                "Heat generated heating (Wh)"),
                "Heat generated hot water (Wh)"),
            InRange),
        "weekly_cop")

\* "Prepare averaged combined COP per week."
WeeklyCop ==
    /\ Running
    /\ pc = "weekly_cop"
    /\ LET res == WeeklyCopYears(records, <<>>, 1)
       IN  /\ weekly_cop' = res.weekly_cop
           /\ error' = res.error
    /\ pc' = "weekly_chart"
    /\ UNCHANGED <<args, fileIdx, rowCount, records, cellsRead, charts,
                   annual_stats, total_stats>>

\* "Prepare weekly COP"
WeeklyCopChart ==
    ChartStep("weekly_chart", WeeklyChart(weekly_cop), "cop")

\* "Prepare the COP chart data."
CopChart ==
    ChartStep("cop",
        CopLoop(
            add_series(add_series(LineChart("COP"), "COP heating"),
                       "COP hot water"),
            InRange),
        "dhw")

\* "Prepare the DHW chart data."
DhwChart ==
    ChartStep("dhw",
        DhwLoop(add_series(LineChart("Hot water temperature (C)"), "DHW"),
                InRange),
        "ambient")

\* "Prepare the internal/external temperature chart."
AmbientChart ==
    ChartStep("ambient",
        AmbientLoop(
            add_series(add_series(LineChart("Ambient temperature"),
                "Internal"), "External"),
            InRange),
        "scatter")

\* "Prepare chart of heat output vs COP"
ScatterStep ==
    /\ Running
    /\ pc = "scatter"
    /\ LET res == ScatterYears(
                    ScatterChart("Heat output vs COP averaged weekly"),
                    records, weekly_cop, 1)
       IN  /\ error' = res.error
           /\ charts' = IF res.error = NoError
                        THEN Append(charts, res.chart)
                        ELSE charts
    /\ pc' = "annual_stats"
    /\ UNCHANGED <<args, fileIdx, rowCount, records, cellsRead, weekly_cop,
                   annual_stats, total_stats>>

\* "Prepare year stats.": one iteration of the loop over the years.
AnnualStats ==
    /\ Running
    /\ pc = "annual_stats"
    /\ LET year == Years[Len(annual_stats) + 1]
           res == MakeStats(year, args, iter_year(records, year),
                    total_year(records, year, CH),
                    total_year(records, year, CW),
                    total_year(records, year, GH),
                    total_year(records, year, GW))
       IN  /\ error' = res.error
           /\ annual_stats' = IF res.error = NoError
                              THEN Append(annual_stats, res.stats)
                              ELSE annual_stats
           /\ pc' = IF res.error = NoError
                       /\ Len(annual_stats) + 1 = Len(Years)
                    THEN "total_stats" ELSE pc
    /\ UNCHANGED <<args, fileIdx, rowCount, records, cellsRead, charts,
                   weekly_cop, total_stats>>

\* "Prepare total stats.": year is the last value of the loop variable.
TotalStats ==
    /\ Running
    /\ pc = "total_stats"
    /\ LET year == Years[Len(Years)]
           res == MakeStats(year, args, InRange,
                    total(records, year, CH, args.date_from, args.date_to),
                    total(records, year, CW, args.date_from, args.date_to),
                    total(records, year, GH, args.date_from, args.date_to),
                    total(records, year, GW, args.date_from, args.date_to))
       IN  /\ error' = res.error
           /\ total_stats' = res.stats
           /\ pc' = IF res.error = NoError THEN "generate_html" ELSE pc
    /\ UNCHANGED <<args, fileIdx, rowCount, records, cellsRead, charts,
                   weekly_cop, annual_stats>>

\* generate_html(charts, annual_stats, s, output_path): the hand-over to
\* the renderer, after which main returns.
GenerateHtml ==
    /\ Running
    /\ pc = "generate_html"
    /\ pc' = "done"
    /\ UNCHANGED <<error, args, fileIdx, rowCount, records, cellsRead, charts,
                   weekly_cop, annual_stats, total_stats>>

Next ==
    \/ ReadRow
    \/ EndOfFile
    \/ Scale
    \/ Dump
    \/ ConsumedChart
    \/ GeneratedChart
    \/ WeeklyCop
    \/ WeeklyCopChart
    \/ CopChart
    \/ DhwChart
    \/ AmbientChart
    \/ ScatterStep
    \/ AnnualStats
    \/ TotalStats
    \/ GenerateHtml

Spec == Init /\ [][Next]_vars

(***************************************************************************)
(* Properties.  The definitions below state the properties of the program  *)
(* in terms that do not reuse the operators they are about.                *)
(***************************************************************************)

\* The metric names main passes to read_csv.
MetricNames ==
    { EnergyBlock[i] : i \in 1..Len(EnergyBlock) }
    \cup { "DhwTankTemperature", "OutdoorTemperature",
           "ManualModeSetpointHeating", "RoomTemperatureSetpoint",
           "CurrentRoomTemperature" }

\* The values a cell of the input may hold.
Values == {0, 1, 2, 3, 7}

DatesOrNone == Dates \cup {None}

\* The field attr of the record stored under date, None if there is none.
FieldOf(recs, date, attr) ==
    IF \E i \in 1..Len(recs) : recs[i].key = date
    THEN LET i == CHOOSE i \in 1..Len(recs) : recs[i].key = date
         IN  recs[i].f[attr]
    ELSE None

\* The day number of each date of the model.
DayNumber == [d \in Dates |-> ToOrdinal(d)]

\* a <= b for two dates, by their day numbers.
DateLeq(a, b) == DayNumber[a] <= DayNumber[b]

\* The sum over the positions S of recs of the field attr, an unset field
\* counting 0.
RECURSIVE SumOver(_, _, _)
SumOver(S, recs, attr) ==
    IF S = {} THEN 0
    ELSE LET i == CHOOSE i \in S : TRUE
         IN  (IF recs[i].f[attr] = None THEN 0 ELSE recs[i].f[attr][1])
             + SumOver(S \ {i}, recs, attr)

\* C1: Dataset.add fails whenever the field of that metric is already set
\* on the record of that timestamp, whatever the stored value (0 included)
\* and whatever the new value, and the failed call leaves the dataset, and
\* so the stored value, as it was.
C1_AddRejectsSetField ==
    \A i \in 1..Len(records) : \A m \in MetricNames :
        records[i].f[Normalize(m)] # None =>
            \A v \in Values :
                LET res == add(records, records[i].key, m, v)
                IN  /\ res.error = "AssertionError"
                    /\ res.records = records

\* A record holds a field set to 0, and the run has ended on the assertion
\* of an add for a field that was set.
C1_Witness ==
    /\ error = "AssertionError"
    /\ \E i \in 1..Len(records) :
          /\ records[i].f[CH] = <<0>>
          /\ add(records, records[i].key, "ConsumedElectricalEnergy:Heating",
                 1).error = "AssertionError"

\* C2: while the files are read, every non-empty cell whose add returned
\* is read back, under the normalized name of its column on the record of
\* its timestamp, as exactly the number written, whatever was added since.
C2_RoundTrip ==
    pc = "ingest" =>
        \A c \in cellsRead :
            c[3] # "" =>
                \E v \in Values :
                    /\ FieldOf(records, c[1], Normalize(c[2])) = <<v>>
                    /\ (v = 0) = (c[3] = "0")
                    /\ (v = 1) = (c[3] = "1")
                    /\ (v = 2) = (c[3] = "2")
                    /\ (v = 3) = (c[3] = "3")
                    /\ (v = 7) = (c[3] = "7")

\* Two records have been written, the first before the second, and the
\* first still reads back its heating consumption.
C2_Witness ==
    /\ pc = "ingest"
    /\ error = NoError
    /\ Len(records) = 2
    /\ <<records[1].key, "ConsumedElectricalEnergy:Heating", "1">> \in cellsRead
    /\ records[1].f[CH] = <<1>>
    /\ records[2].f[CH] # None

\* C3: every line chart in charts has as many labels as each of its series
\* has data points.
C3_EqualLength ==
    \A k \in 1..Len(charts) :
        charts[k].type = "LINE" =>
            \A n \in DOMAIN charts[k].series :
                Len(charts[k].series[n]) = Len(charts[k].labels)

\* The years a total is asked for: the years of the input, and one with no
\* record.
ProbeYears == {2021, 2022, 2023, 2024}

\* The metrics main takes totals of, and one it does not.
TotalledAttrs == {CH, CW, GH, GW, "DhwTankTemperature"}

\* The positions of the records of a calendar year.
YearPositions(recs, year) ==
    {i \in 1..Len(recs) : recs[i].DateTime[1] = year}

\* The positions of the records with date_from <= DateTime <= date_to, a
\* bound that is None not restricting.
RangePositions(recs, date_from, date_to) ==
    {i \in 1..Len(recs) :
        /\ date_from = None \/ DateLeq(date_from, recs[i].DateTime)
        /\ date_to = None \/ DateLeq(recs[i].DateTime, date_to)}

\* C4: total_year of a metric over a year and total of a metric over a date
\* range are the sum of the metric over exactly the records of the year or
\* of the range, an unset field counting 0, and 0 when there is no such
\* record; the sums of the Stats are these totals.
C4_TotalAdditive ==
    /\ \A y \in ProbeYears :
          LET P == YearPositions(records, y)
          IN  \A m \in Attrs :
                LET t == total_year(records, y, m)
                IN  /\ t = SumOver(P, records, m)
                    /\ P = {} => t = 0
    /\ \A df \in DatesOrNone : \A dt \in DatesOrNone :
          LET P == RangePositions(records, df, dt)
          IN  \A m \in TotalledAttrs :
                LET t == total(records, 0, m, df, dt)
                IN  /\ t = SumOver(P, records, m)
                    /\ P = {} => t = 0
    /\ \A k \in 1..Len(annual_stats) :
          /\ annual_stats[k].annual_heating_consumed =
                SumOver(YearPositions(records, Years[k]), records, CH)
          /\ annual_stats[k].annual_water_generated =
                SumOver(YearPositions(records, Years[k]), records, GW)
    /\ total_stats # None =>
          total_stats.annual_water_consumed =
             SumOver(RangePositions(records, args.date_from, args.date_to),
                     records, CW)

\* The Stats of 2023 have been computed over two records of 2023, one of
\* them without a hot water consumption, and a total over a year without
\* records has been taken.
C4_Witness ==
    /\ Len(annual_stats) >= 1
    /\ Cardinality(YearPositions(records, 2023)) = 2
    /\ \E i \in YearPositions(records, 2023) : records[i].f[CW] = None
    /\ annual_stats[1].annual_water_consumed > 0
    /\ total_year(records, 2024, CW) = 0

\* The steps of main that iterate over the dataset.
IterSteps ==
    {"consumed", "generated", "weekly_cop", "cop", "dhw", "ambient",
     "scatter", "annual_stats", "total_stats"}

\* iter_records(date_from, date_to) yields exactly the records with
\* date_from <= DateTime <= date_to, once each, in insertion order.
C5_Yields ==
    \A df \in DatesOrNone : \A dt \in DatesOrNone :
        LET it == iter_records(records, df, dt)
            P  == RangePositions(records, df, dt)
        IN  /\ Len(it) = Cardinality(P)
            /\ \A k \in 1..Len(it) :
                  \E i \in P :
                      /\ it[k] = records[i]
                      /\ Cardinality({j \in P : j < i}) = k - 1
            /\ (df = None /\ dt = None) => it = records

\* C5: iter_records yields exactly the stored records whose timestamp lies
\* between the two bounds, both inclusive, a None bound being open; each
\* once, in insertion order; and the steps that iterate leave the dataset
\* as it is.
C5_RangeIteration ==
    /\ []C5_Yields
    /\ [][(pc \in IterSteps) => (records' = records)]_vars

\* A chart has been built over a date range with both bounds given, the
\* lower one the timestamp of a stored record, which is yielded, and with
\* a stored record outside the range.
C5_Witness ==
    /\ Len(charts) >= 1
    /\ args.date_from # None
    /\ args.date_to # None
    /\ \E k \in 1..Len(InRange) : InRange[k].DateTime = args.date_from
    /\ Len(InRange) < Len(records)

\* The (date, attribute) pairs some non-empty cell read so far is for.
NonEmptyRead ==
    { <<c[1], Normalize(c[2])>> : c \in {x \in cellsRead : x[3] # ""} }

\* C6: a field of a record is set if and only if read_csv has read a
\* non-empty cell for that timestamp in a column of that metric, so an
\* empty cell sets nothing; a cell holding 0 sets the field to 0; and the
\* records where a field is unset add nothing to its total.
C6_EmptyCellsAbsent ==
    /\ LET ne == NonEmptyRead
       IN  \A d \in Dates : \A a \in Attrs :
              (FieldOf(records, d, a) # None) <=> (<<d, a>> \in ne)
    /\ \A c \in cellsRead :
          c[3] = "0" => FieldOf(records, c[1], Normalize(c[2])) = <<0>>
    /\ \A a \in Attrs :
          total(records, 0, a, None, None) =
             SumOver({i \in 1..Len(records) : records[i].f[a] # None},
                     records, a)

\* A row whose only cell is empty has been read and has left no record,
\* and a cell holding 0 has set the tank temperature of a record to 0.
C6_Witness ==
    /\ error = NoError
    /\ \E c \in cellsRead :
          /\ c[2] = "DhwTankTemperature"
          /\ c[3] = ""
          /\ \A i \in 1..Len(records) : records[i].key # c[1]
    /\ \E i \in 1..Len(records) : records[i].f["DhwTankTemperature"] = <<0>>

\* The record has the four energy attributes set.
HasFour(r) ==
    /\ r.f[CH] # None
    /\ r.f[CW] # None
    /\ r.f[GH] # None
    /\ r.f[GW] # None

\* generated / consumed is above the threshold (a quotient by 0 counts 0).
Exceeds(generated, consumed) ==
    consumed # 0 /\ generated > CopThreshold * consumed

HeatingOrWaterExceeds(r) ==
    \/ Exceeds(r.f[GH][1], r.f[CH][1])
    \/ Exceeds(r.f[GW][1], r.f[CW][1])

CombinedExceeds(r) ==
    Exceeds(r.f[GH][1] + r.f[GW][1], r.f[CH][1] + r.f[CW][1])

\* The label of the chart point of a date: day, month, year.
DayMonthYear(date) == <<date[3], date[2], date[1]>>

\* The ISO week number of a date: the week of the year that holds the
\* Thursday of the date's week, counted in sevens from that year's start.
WeekOfThursday(date) ==
    LET n == ToOrdinal(date)
        thursday == n - ((n + 6) % 7) + 3
        y == CHOOSE y \in {date[1] - 1, date[1], date[1] + 1} :
                /\ ToOrdinal(<<y, 1, 1>>) <= thursday
                /\ thursday < ToOrdinal(<<y + 1, 1, 1>>)
    IN  ((thursday - ToOrdinal(<<y, 1, 1>>)) \div 7) + 1

\* The ISO week of each date of the model.
WeekNumber == [d \in Dates |-> WeekOfThursday(d)]

\* The sum, as an unreduced fraction <<n, d>>, of the combined quotients
\* (generated / consumed, 0 when nothing was consumed) of the records at
\* the positions S.
RECURSIVE CombinedSum(_, _)
CombinedSum(S, recs) ==
    IF S = {} THEN <<0, 1>>
    ELSE LET i == CHOOSE i \in S : TRUE
             g == recs[i].f[GH][1] + recs[i].f[GW][1]
             c == recs[i].f[CH][1] + recs[i].f[CW][1]
             q == IF c = 0 THEN <<0, 1>> ELSE <<g, c>>
             rest == CombinedSum(S \ {i}, recs)
         IN  <<q[1] * rest[2] + rest[1] * q[2], q[2] * rest[2]>>

\* The positions of the records of a year and ISO week that the weekly sum
\* keeps.
WeekPositions(recs, year, week) ==
    {i \in YearPositions(recs, year) :
        /\ HasFour(recs[i])
        /\ ~CombinedExceeds(recs[i])
        /\ WeekNumber[recs[i].DateTime] = week}

\* The "COP" chart has been appended to charts.
HasCopChart == \E k \in 1..Len(charts) : charts[k].name = "COP"

\* The "COP" chart.
TheCopChart == charts[CHOOSE k \in 1..Len(charts) : charts[k].name = "COP"]

\* One of the three quotients of the record is above the threshold.
AnyCopExceeds(r) == HeatingOrWaterExceeds(r) \/ CombinedExceeds(r)

\* C7 as stated: a record with the four metrics one of whose COPs
\* (heating, hot water or combined) is above 6 has no point in the COP
\* chart and adds nothing to the weekly buckets, which hold a seventh of
\* the sum of the combined COP of the records none of whose COPs is
\* above 6.
C7_AnyCopExcludedEverywhere ==
    /\ HasCopChart =>
          \A i \in RangePositions(records, args.date_from, args.date_to) :
              (HasFour(records[i]) /\ AnyCopExceeds(records[i]))
              => \A k \in 1..Len(TheCopChart.labels) :
                    TheCopChart.labels[k]
                       # DayMonthYear(records[i].DateTime)
    /\ error = NoError =>
          \A yi \in 1..Len(weekly_cop) : \A w \in 0..(WeekBuckets - 1) :
              LET S == {i \in YearPositions(records, Years[yi]) :
                          /\ HasFour(records[i])
                          /\ ~AnyCopExceeds(records[i])
                          /\ WeekNumber[records[i].DateTime] = w}
                  sum == CombinedSum(S, records)
                  b == weekly_cop[yi][w + 1]
              IN  b[1] * sum[2] * DaysPerWeek = sum[1] * b[2]

\* C7: each construction tests its own COP.  A record whose heating or
\* hot water COP is above 6 has no point in the COP chart, which holds one
\* label and one point per series for each other record of the range with
\* the four metrics, and no point above 6; a record whose combined COP is
\* above 6 adds nothing to the weekly buckets, which hold a seventh of the
\* sum of the combined COP of the others; and the sums of the annual Stats
\* are taken over all the records of the year, these ones included.
C7_ExcludedFromChartsNotSums ==
    /\ HasCopChart =>
          LET chart == TheCopChart
              P == RangePositions(records, args.date_from, args.date_to)
              kept == {i \in P : HasFour(records[i])
                                   /\ ~HeatingOrWaterExceeds(records[i])}
          IN  /\ \A i \in P :
                    (HasFour(records[i]) /\ HeatingOrWaterExceeds(records[i]))
                    => \A k \in 1..Len(chart.labels) :
                          chart.labels[k] # DayMonthYear(records[i].DateTime)
              /\ Len(chart.labels) = Cardinality(kept)
              /\ \A n \in DOMAIN chart.series :
                    /\ Len(chart.series[n]) = Cardinality(kept)
                    /\ \A k \in 1..Len(chart.series[n]) :
                          chart.series[n][k][1]
                             <= CopThreshold * chart.series[n][k][2]
    /\ error = NoError =>
          \A yi \in 1..Len(weekly_cop) : \A w \in 0..(WeekBuckets - 1) :
              LET sum == CombinedSum(WeekPositions(records, Years[yi], w),
                                     records)
                  b == weekly_cop[yi][w + 1]
              IN  b[1] * sum[2] * DaysPerWeek = sum[1] * b[2]
    /\ \A k \in 1..Len(annual_stats) :
          LET P == YearPositions(records, Years[k])
          IN  /\ annual_stats[k].annual_heating_consumed
                    = SumOver(P, records, CH)
              /\ annual_stats[k].annual_water_consumed
                    = SumOver(P, records, CW)
              /\ annual_stats[k].annual_heating_generated
                    = SumOver(P, records, GH)
              /\ annual_stats[k].annual_water_generated
                    = SumOver(P, records, GW)

\* The Stats of 2023 have been computed with a record of 2023, in the date
\* range of the COP chart, whose hot water COP is above 6: it has no point
\* in the COP chart, and its generated hot water heat is in the annual sum.
C7_Witness ==
    /\ Len(annual_stats) >= 1
    /\ HasCopChart
    /\ \E i \in YearPositions(records, 2023) :
          /\ i \in RangePositions(records, args.date_from, args.date_to)
          /\ HasFour(records[i])
          /\ Exceeds(records[i].f[GW][1], records[i].f[CW][1])
          /\ \A k \in 1..Len(TheCopChart.labels) :
                TheCopChart.labels[k]
                   # DayMonthYear(records[i].DateTime)
          /\ annual_stats[1].annual_water_generated >= records[i].f[GW][1]
          /\ records[i].f[GW][1] > 0

\* Every day of the years main iterates over has an ISO week number that
\* is an index of the 53 buckets.
EveryDayHasBucket ==
    \A yi \in 1..Len(Years) : \A m \in 1..12 :
        \A d \in 1..DaysInMonth(Years[yi], m) :
            /\ IsoWeek(<<Years[yi], m, d>>) >= 1
            /\ IsoWeek(<<Years[yi], m, d>>) < WeekBuckets

\* C8: the weekly accumulation never raises IndexError: the ISO week
\* number of every day of 2023 and 2024 is an index of the 53 buckets (no
\* day of these years lies in an ISO week 53, and a record of another
\* year, of whatever week, is not accumulated); and a bucket is populated
\* only by records of its year whose ISO week number is its index.
C8_WeeklyBuckets ==
    /\ EveryDayHasBucket
    /\ error # "IndexError"
    /\ \A yi \in 1..Len(weekly_cop) :
          /\ Len(weekly_cop[yi]) = WeekBuckets
          /\ \A w \in 0..(WeekBuckets - 1) :
                weekly_cop[yi][w + 1][1] # 0 =>
                    \E i \in YearPositions(records, Years[yi]) :
                        /\ HasFour(records[i])
                        /\ WeekNumber[records[i].DateTime] = w

\* The weekly sums have been taken with a record of ISO week 53 (1 January
\* 2021) with the four metrics in the dataset, and with a record of the
\* last week of 2023, week 52, in the last bucket of 2023.
C8_Witness ==
    /\ Len(weekly_cop) = Len(Years)
    /\ error = NoError
    /\ \E i \in 1..Len(records) :
          /\ HasFour(records[i])
          /\ WeekNumber[records[i].DateTime] = 53
    /\ \E i \in YearPositions(records, 2023) :
          /\ HasFour(records[i])
          /\ WeekNumber[records[i].DateTime] = 52
    /\ weekly_cop[1][WeekBuckets][1] # 0

\* The field v multiplied by k, an unset field staying unset.
Times(v, k) == IF v = None THEN None ELSE <<v[1] * k>>

\* records' is records with the consumed fields multiplied by
\* scale_consumed, the generated fields by scale_generated, and nothing
\* else changed.
OnlyScaled ==
    /\ Len(records') = Len(records)
    /\ \A i \in 1..Len(records) :
          /\ records'[i].key = records[i].key
          /\ records'[i].DateTime = records[i].DateTime
          /\ \A a \in Attrs :
                records'[i].f[a] =
                   IF a \in {CH, CW}
                   THEN Times(records[i].f[a], args.scale_consumed)
                   ELSE IF a \in {GH, GW}
                   THEN Times(records[i].f[a], args.scale_generated)
                   ELSE records[i].f[a]

\* C9 as stated: once the last file has been read, no step changes the
\* dataset.
C9_ReadOnlyAfterIngestion ==
    [][(pc # "ingest") => (records' = records)]_vars

\* C9: the dataset is changed only by the ingestion and by the scaling
\* step that follows it: the scaling adds no record and changes only the
\* four energy fields, by the scale factors, and after it no step changes
\* the dataset.
C9_ReadOnlyAfterScaling ==
    [][/\ (pc = "scale") => OnlyScaled
       /\ (pc \notin {"ingest", "scale"}) => (records' = records)]_vars

\* A chart has been built from a heating consumption that the scaling
\* doubled after it was read as 1.
C9_Witness ==
    /\ Len(charts) >= 1
    /\ args.scale_consumed = 2
    /\ \E c \in cellsRead :
          /\ c[2] = "ConsumedElectricalEnergy:Heating"
          /\ c[3] = "1"
          /\ FieldOf(records, c[1], CH) = <<2>>
          /\ \E k \in 1..Len(charts[1].labels) :
                /\ charts[1].labels[k] = DayMonthYear(c[1])
                /\ charts[1].series["Heating (Wh)"][k] = 2

\* C10 as stated: a record of the range with the four metrics set and a
\* consumption of 0 has its point in the COP chart.
C10_ZeroCopKept ==
    HasCopChart =>
        \A i \in RangePositions(records, args.date_from, args.date_to) :
            (/\ HasFour(records[i])
             /\ records[i].f[CH] = <<0>> \/ records[i].f[CW] = <<0>>)
            => \E k \in 1..Len(TheCopChart.labels) :
                  TheCopChart.labels[k]
                     = DayMonthYear(records[i].DateTime)

\* The point of the COP chart for the date, with the value of a series.
HasPoint(chart, date, series_name, value) ==
    \E k \in 1..Len(chart.labels) :
        /\ chart.labels[k] = DayMonthYear(date)
        /\ chart.series[series_name][k] = value

\* C10: a COP with a consumption of 0 is 0 and raises nothing: no step
\* before the statistics raises ZeroDivisionError, the weekly sums are
\* completed, and a record of the range with the four metrics set whose
\* heating (hot water) consumption is 0 has a point with heating (hot
\* water) COP 0 in the COP chart unless its other COP is above 6, in which
\* case it has no point.
C10_ZeroDenominatorIsZero ==
    /\ error = "ZeroDivisionError" => pc \in {"annual_stats", "total_stats"}
    /\ HasCopChart =>
          LET chart == TheCopChart
          IN  \A i \in RangePositions(records, args.date_from, args.date_to) :
                LET r == records[i]
                IN  HasFour(r) =>
                      /\ (r.f[CH] = <<0>> /\ ~Exceeds(r.f[GW][1], r.f[CW][1]))
                         => HasPoint(chart, r.DateTime, "COP heating", <<0, 1>>)
                      /\ (r.f[CW] = <<0>> /\ ~Exceeds(r.f[GH][1], r.f[CH][1]))
                         => HasPoint(chart, r.DateTime, "COP hot water",
                                     <<0, 1>>)
                      /\ (\/ r.f[CH] = <<0>> /\ Exceeds(r.f[GW][1], r.f[CW][1])
                          \/ r.f[CW] = <<0>> /\ Exceeds(r.f[GH][1], r.f[CH][1]))
                         => \A k \in 1..Len(chart.labels) :
                               chart.labels[k] # DayMonthYear(r.DateTime)

\* The COP chart holds the point, with heating COP 0, of a record that
\* consumed nothing at all, and the weekly sums have been taken with it.
C10_Witness ==
    /\ HasCopChart
    /\ error = NoError
    /\ \E i \in RangePositions(records, args.date_from, args.date_to) :
          /\ HasFour(records[i])
          /\ records[i].f[CH] = <<0>>
          /\ records[i].f[CW] = <<0>>
          /\ records[i].f[GH] # <<0>>
          /\ records[i].DateTime[1] = 2023
          /\ HasPoint(TheCopChart, records[i].DateTime,
                      "COP heating", <<0, 1>>)

\* Every record of recs has its DateTime set, to the key it is stored
\* under, and no two records share a key.
DatedByKey(recs) ==
    /\ \A i \in 1..Len(recs) :
          /\ recs[i].DateTime # None
          /\ recs[i].DateTime = recs[i].key
    /\ \A i \in 1..Len(recs) : \A j \in 1..Len(recs) :
          (recs[i].key = recs[j].key) => (i = j)

\* C11: every record of the dataset has its DateTime set and equal to the
\* key it is stored under, and there is one record per timestamp; while
\* the files are read this is also so of the dataset any further add, for
\* any timestamp and metric, would leave, whether the add returns or
\* fails on its assertion.
C11_DateTimeIsKey ==
    /\ DatedByKey(records)
    /\ pc = "ingest" =>
          \A d \in Dates : \A m \in MetricNames :
              DatedByKey(add(records, d, m, 1).records)

\* One record has been written to from two files (its DateTime was set by
\* the first add and found set by the later ones), and iter_year has
\* read the DateTime of the records for the weekly sums.
C11_Witness ==
    /\ Len(weekly_cop) = Len(Years)
    /\ error = NoError
    /\ \E i \in 1..Len(records) :
          /\ records[i].f[CH] # None
          /\ records[i].f["DhwTankTemperature"] # None
          /\ records[i].DateTime = records[i].key

====
